---- MODULE Spec2Model ----
(***************************************************************************)
(* A model of the CONUS cropland SOC pipeline.                             *)
(*                                                                         *)
(*   Spec      the zonal aggregator: calculate_cropland_soc.py (main and   *)
(*             calculate_cropland_soc) and calculate_cropland_areas.py     *)
(*             (main and calculate_cropland_area), run over the counties   *)
(*             of one land-use raster.                                     *)
(*   SpecSoil  the soil-file pipeline: generate_soil_files.py (main), one  *)
(*             (county, irrigation type) iteration after the other.        *)
(*                                                                         *)
(* Numbers are fixed point.  Areas are in tenths of a hectare, soil        *)
(* property values in hundredths of their unit (a SoilGrids integer r      *)
(* times its multiplier 0.01 is r hundredths), layer depths in centimetres *)
(* and SOC weights in 1e-4 Mg/ha.  A float is a record [isnan, num, den]:  *)
(* NaN, or the rational num/den.  Rounding of binary floats is not         *)
(* modelled.                                                               *)
(***************************************************************************)
EXTENDS Integers, Sequences, FiniteSets, TLC

VARIABLES
    prog,               \* which script runs: "soc", "areas" or "soil"
    pc,                 \* position of the running script
    world,              \* the rasters and county boundaries on disk
    todo,               \* counties conus_gdf.apply has still to visit
    gid,                \* county of the running call
    markers,            \* ./temp/<gid> files that exist
    county_lu,          \* the clipped land-use raster of the running call
    df,                 \* the per-pixel table of the running call
    rasters_opened,     \* soil rasters opened by the running call
    weights_computed,   \* whether the running call computed soc_weight columns
    ret,                \* value returned by the last call
    conus_table,        \* conus_gdf[variables]: county -> returned list
    csv_rows,           \* counties written to the summary csv
    soil_pc,            \* position of generate_soil_files.main
    type_i,             \* position of `for t in LU_TYPES` in the running county
    points,             \* df: the cropland points of the running iteration
    slope,              \* mean slope of the surviving points
    hsg,                \* hydrologic soil group of the surviving points
    muname,             \* the dominant map unit name
    selected_soil,      \* the horizon table of the dominant map unit
    soil_depth,         \* the computed soil depth, cm
    selected_point,     \* the point SoilGrids is sampled at
    soil_files,         \* names of the soil files written so far
    last_file,          \* what the last generate_soil_file call of the iteration wrote
    gssurgo_luts,       \* the component and chorizon tables read for the dominant unit
    county_df,          \* the SoilGrids columns and centroid distances of the points
    fn_pc,              \* the function of the running direct call, "none" between calls
    fn_in,              \* the arguments of the running direct call
    fn_out,             \* what the running direct call returned
    dl_pc,              \* position of download_soilgrids_data
    dl_cov,             \* index of the (property, layer) coverage being downloaded
    dl_attempts,        \* failed attempts for that coverage, counted up to MaxAttempts
    dl_files            \* the .tif files on disk: coverage -> "partial" or "complete"

aggVars == <<prog, pc, world, todo, gid, markers, county_lu, df,
             rasters_opened, weights_computed, ret, conus_table, csv_rows>>

soilVars == <<soil_pc, type_i, points, slope, hsg, muname, selected_soil,
              soil_depth, selected_point, soil_files, last_file, gssurgo_luts,
              county_df>>

fnVars == <<fn_pc, fn_in, fn_out>>

dlVars == <<dl_pc, dl_cov, dl_attempts, dl_files>>

vars == <<aggVars, soilVars, fnVars, dlVars>>

-----------------------------------------------------------------------------
(* Floats *)

NaN == [isnan |-> TRUE, num |-> 0, den |-> 1]

Num(n) == [isnan |-> FALSE, num |-> n, den |-> 1]

Frac(n, d) == [isnan |-> FALSE, num |-> n, den |-> d]

IsNaN(v) == v.isnan

\* a == b on floats; NaN equals nothing
FEq(a, b) == ~a.isnan /\ ~b.isnan /\ a.num * b.den = b.num * a.den

\* a > b on floats; a comparison with NaN is false
FGt(a, b) == ~a.isnan /\ ~b.isnan /\ a.num * b.den > b.num * a.den

FMul(a, b) == IF a.isnan \/ b.isnan THEN NaN ELSE Frac(a.num * b.num, a.den * b.den)

RECURSIVE SumInts(_)
SumInts(s) == IF s = <<>> THEN 0 ELSE Head(s) + SumInts(Tail(s))

\* the non-NaN numerators of a sequence of floats with denominator 1
NotNaNs(s) ==
    LET keep == SelectSeq(s, LAMBDA v : ~v.isnan)
    IN  [i \in 1..Len(keep) |-> keep[i].num]

SeqMax(s) == CHOOSE m \in {s[i] : i \in 1..Len(s)} : \A j \in 1..Len(s) : s[j] <= m

SeqMin(s) == CHOOSE m \in {s[i] : i \in 1..Len(s)} : \A j \in 1..Len(s) : m <= s[j]

-----------------------------------------------------------------------------
(* settings.py, config.py *)

TOTAL_DEPTH == 30

MIN_REPORT_AREA == 100

LU_TYPE_NAMES == <<"rainfed", "irrigated">>

LU_TYPES == [rainfed |-> {3}, irrigated |-> {2}]

AG_TYPES == {2, 3}

SOILGRIDS_LAYERS ==
    << [name |-> "0-5cm",     top |-> 0,   bottom |-> 5,   thickness |-> 5],
       [name |-> "5-15cm",    top |-> 5,   bottom |-> 15,  thickness |-> 10],
       [name |-> "15-30cm",   top |-> 15,  bottom |-> 30,  thickness |-> 15],
       [name |-> "30-60cm",   top |-> 30,  bottom |-> 60,  thickness |-> 30],
       [name |-> "60-100cm",  top |-> 60,  bottom |-> 100, thickness |-> 40],
       [name |-> "100-200cm", top |-> 100, bottom |-> 200, thickness |-> 100] >>

FUNC_NAMES == <<"mean", "max", "min">>

\* layers = [layer for layer in SOILGRIDS_LAYERS if layer['bottom'] <= TOTAL_DEPTH]
layers == SelectSeq(SOILGRIDS_LAYERS, LAMBDA l : l.bottom <= TOTAL_DEPTH)

\* f'0-{int(TOTAL_DEPTH * 100)}cm'
TotalName == "0-30cm"

\* [l['name'] for l in layers] + [f'0-{int(TOTAL_DEPTH * 100)}cm']
DepthNames == [i \in 1..(Len(layers) + 1) |->
                 IF i <= Len(layers) THEN layers[i].name ELSE TotalName]

AreaVar(t) == <<"area", t>>

SocVar(t, f, d) == <<"soc", t, f, d>>

\* the list of all variables that need to be calculated, in the order main builds it
variables ==
    LET nT == Len(LU_TYPE_NAMES)
        nF == Len(FUNC_NAMES)
        nD == Len(DepthNames)
    IN  [i \in 1..(nT + nD * nT * nF) |->
           IF i <= nT THEN AreaVar(LU_TYPE_NAMES[i])
           ELSE LET k == i - nT - 1
                IN  SocVar(LU_TYPE_NAMES[((k % (nT * nF)) \div nF) + 1],
                           FUNC_NAMES[(k % nF) + 1],
                           DepthNames[(k \div (nT * nF)) + 1])]

-----------------------------------------------------------------------------
(* The inputs on disk *)

NumCols == 3

Counties == <<"c1", "c2">>

\* per-row gridded soil values, one entry per layer of `layers`
SoilA == [bulk_density |-> <<Num(100), Num(100), Num(100)>>,
          soc          |-> <<Num(400), Num(0),   Num(0)>>]

SoilB == [bulk_density |-> <<Num(150), Num(150), Num(150)>>,
          soc          |-> <<Num(200), Num(100), Num(100)>>]

SoilC == [bulk_density |-> <<Num(100), NaN,      Num(100)>>,
          soc          |-> <<Num(400), Num(100), Num(100)>>]

SoilD == [bulk_density |-> <<Num(100), Num(100), Num(100)>>,
          soc          |-> <<NaN,      Num(100), Num(100)>>]

\* latitudes of the raster rows, north first, in tenths of the cell height
\* above LAT0
Latitudes == <<13, 3>>

SoilRasters == { <<SoilA, SoilB>>, <<SoilB, SoilC>>, <<SoilD, SoilA>> }

\* a land-use raster of NumCols columns whose first NumCols - 1 columns are
\* county c1 and whose last column is county c2
GenericWorlds ==
    { [ncols     |-> NumCols,
       lats      |-> Latitudes,
       lu        |-> l,
       soil      |-> s,
       cell_area |-> (13 :> 50 @@ 3 :> 100),
       boundary  |-> [c1 |-> [lo |-> 1, hi |-> NumCols - 1],
                      c2 |-> [lo |-> NumCols, hi |-> NumCols]]] :
      l \in [(1..Len(Latitudes)) \X (1..NumCols) -> {1, 2, 3}],
      s \in SoilRasters }

\* the end-to-end county: 40 agricultural pixels of 0.5 ha, 30 rainfed and
\* 10 irrigated, 20 Mg/ha of SOC everywhere; a second county without cropland
EndToEndWorld ==
    [ncols     |-> 21,
     lats      |-> Latitudes,
     lu        |-> [p \in (1..Len(Latitudes)) \X (1..21) |->
                      IF p[2] = 21 THEN 1
                      ELSE IF p[1] = 2 /\ p[2] > 10 THEN 2 ELSE 3],
     soil      |-> <<SoilA, SoilA>>,
     cell_area |-> (13 :> 5 @@ 3 :> 5),
     boundary  |-> [c1 |-> [lo |-> 1, hi |-> 20],
                    c2 |-> [lo |-> 21, hi |-> 21]]]

Worlds == GenericWorlds \cup {EndToEndWorld}

-----------------------------------------------------------------------------
(* calculate_cropland_soc.py, calculate_cropland_areas.py: the functions *)

\* int(round((lat - LAT0) / DJ)), round half to even; lat in tenths of DJ above LAT0
IND_J(lat) ==
    LET q == lat \div 10
        r == lat % 10
    IN  IF r < 5 THEN q
        ELSE IF r > 5 THEN q + 1
        ELSE IF q % 2 = 0 THEN q ELSE q + 1

\* one row per latitude of the raster: its row index and the area of its cell
calculate_grid_areas(w) ==
    [i \in 1..Len(w.lats) |->
        [y |-> w.lats[i], ind |-> IND_J(w.lats[i]), area_ha |-> Num(w.cell_area[w.lats[i]])]]

\* lu_xds.rio.clip([boundary]) stacked: the pixels inside the boundary, row by row
Clip(w, b) ==
    LET wd == b.hi - b.lo + 1
    IN  [i \in 1..(Len(w.lats) * wd) |->
           LET r == ((i - 1) \div wd) + 1
               x == b.lo + ((i - 1) % wd)
           IN  [row |-> r, y |-> w.lats[r], x |-> x, lu |-> w.lu[<<r, x>>]]]

NoCropland(lu_df) == SelectSeq(lu_df, LAMBDA p : p.lu \in AG_TYPES) = <<>>

\* the soil rasters resampled (nearest) on the county grid and concatenated to the
\* land-use column
ConcatSoil(w, lu_df) ==
    [i \in 1..Len(lu_df) |->
        [y |-> lu_df[i].y, x |-> lu_df[i].x, lu |-> lu_df[i].lu,
         bulk_density |-> w.soil[lu_df[i].row].bulk_density,
         soc |-> w.soil[lu_df[i].row].soc]]

RECURSIVE Concat(_)
Concat(ss) == IF ss = <<>> THEN <<>> ELSE Head(ss) \o Concat(Tail(ss))

\* the join as a positional lookup: every pixel gets the area of the first grid row
MergeArea_FirstRow(rows, area_gdf) ==
    [i \in 1..Len(rows) |-> [px |-> rows[i], area_ha |-> area_gdf[1].area_ha]]

\* pd.merge(df, area_gdf, on='ind', how='left'): every left row once per right row
\* of its row index, and once with a missing area when there is none
MergeArea(rows, area_gdf) ==
    Concat([i \in 1..Len(rows) |->
        LET m == SelectSeq(area_gdf, LAMBDA a : a.ind = IND_J(rows[i].y))
        IN  IF m = <<>> THEN << [px |-> rows[i], area_ha |-> NaN] >>
            ELSE [k \in 1..Len(m) |-> [px |-> rows[i], area_ha |-> m[k].area_ha]]])

soc_weight(bulk_density, soc_percent, thickness) ==
    FMul(FMul(soc_percent, Num(thickness)), bulk_density)

\* sum(axis=1) with the default skipna: the missing weights are left out
SumNoSkip_Skipping(vals) == Num(SumInts(NotNaNs(vals)))

\* sum(axis=1, skipna=False)
SumNoSkip(vals) ==
    IF \E i \in 1..Len(vals) : vals[i].isnan THEN NaN
    ELSE Num(SumInts([i \in 1..Len(vals) |-> vals[i].num]))

\* the soc_weight columns of one row: one per layer, then the 0-30cm total
WeightColumns(px) ==
    LET per == [i \in 1..Len(layers) |->
                  soc_weight(px.bulk_density[i], px.soc[i], layers[i].thickness)]
    IN  Append(per, SumNoSkip(per))

\* lines 104-111: the agricultural pixels with their area and SOC weights
AgTable(soil_df, area_gdf) ==
    LET ag == SelectSeq(soil_df, LAMBDA p : p.lu \in AG_TYPES)
        mg == MergeArea(ag, area_gdf)
    IN  [i \in 1..Len(mg) |->
           [lu |-> mg[i].px.lu, y |-> mg[i].px.y, x |-> mg[i].px.x,
            area_ha |-> mg[i].area_ha, soc_weight |-> WeightColumns(mg[i].px)]]

\* Series.sum(): missing values are skipped
AreaSum(rows) == Num(SumInts(NotNaNs([i \in 1..Len(rows) |-> rows[i].area_ha])))

\* area if area > MIN_REPORT_AREA else 0.0
ReportArea(area) == IF FGt(area, Num(MIN_REPORT_AREA)) THEN area ELSE Num(0)

\* FUNCS: pandas reducers, missing values skipped
FUNCS(f, col) ==
    LET v == NotNaNs(col)
    IN  IF v = <<>> THEN NaN
        ELSE CASE f = "mean" -> Frac(SumInts(v), Len(v))
               [] f = "max"  -> Num(SeqMax(v))
               [] f = "min"  -> Num(SeqMin(v))

TypeRows(table, codes) == SelectSeq(table, LAMBDA r : r.lu \in codes)

DepthIndex(d) == CHOOSE i \in 1..Len(DepthNames) : DepthNames[i] = d

\* the statistic without the test of the reported area
SocStat_NoCascade(sub_df, reported, f) ==
    IF sub_df = <<>> THEN NaN ELSE FUNCS(f, sub_df)

\* np.nan if sub_df.empty or result[f'{t}_area'] == 0.0 else FUNCS[f](sub_df)
SocStat(sub_df, reported, f) ==
    IF sub_df = <<>> \/ FEq(reported, Num(0)) THEN NaN ELSE FUNCS(f, sub_df)

\* lines 113-121: the result dictionary
SocResult(table) ==
    [v \in {variables[i] : i \in 1..Len(variables)} |->
        LET rows == TypeRows(table, LU_TYPES[v[2]])
            reported == ReportArea(AreaSum(rows))
        IN  IF v[1] = "area" THEN reported
            ELSE SocStat([i \in 1..Len(rows) |-> rows[i].soc_weight[DepthIndex(v[4])]],
                         reported, v[3])]

\* return [result[v] for v in variables]
ResultList(result, vars_) == [i \in 1..Len(vars_) |-> result[vars_[i]]]

\* the short-circuit list with one missing value per variable after the two areas
NoCroplandList_TooLong(vars_) == <<Num(0), Num(0)>> \o [i \in 1..Len(vars_) |-> NaN]

\* [0.0, 0.0] + list(np.nan * np.ones(len(variables) - 2))
NoCroplandList(vars_) == <<Num(0), Num(0)>> \o [i \in 1..(Len(vars_) - 2) |-> NaN]

\* config.MANAGEMENT_TYPES
MANAGEMENT_TYPES == LU_TYPES

\* calculate_cropland_area: the two reported areas
calculate_cropland_area(w, area_gdf, b) ==
    LET lu_df == Clip(w, b)
        ag == SelectSeq(lu_df, LAMBDA p : p.lu \in UNION {MANAGEMENT_TYPES[t] : t \in DOMAIN MANAGEMENT_TYPES})
    IN  IF ag = <<>> THEN <<Num(0), Num(0)>>
        ELSE LET mg == MergeArea(ag, area_gdf)
                 tab == [i \in 1..Len(mg) |-> [lu |-> mg[i].px.lu, area_ha |-> mg[i].area_ha]]
             IN  [i \in 1..Len(LU_TYPE_NAMES) |->
                    ReportArea(AreaSum(TypeRows(tab, MANAGEMENT_TYPES[LU_TYPE_NAMES[i]])))]

-----------------------------------------------------------------------------
(* calculate_cropland_soc.py and calculate_cropland_areas.py: the runs *)

\* the columns the running script assigns to conus_gdf
Columns == IF prog = "soc" THEN variables
           ELSE [i \in 1..Len(LU_TYPE_NAMES) |-> AreaVar(LU_TYPE_NAMES[i])]

ColumnOf(row, v) == row.values[CHOOSE i \in 1..Len(Columns) : Columns[i] = v]

FAdd(a, b) == IF a.isnan \/ b.isnan THEN NaN
              ELSE Frac(a.num * b.den + b.num * a.den, a.den * b.den)

\* the row filter on the rainfed area alone
HasCropland_RainfedOnly(row) == FGt(ColumnOf(row, AreaVar("rainfed")), Num(0))

\* conus_gdf['rainfed_area'] + conus_gdf['irrigated_area'] > 0.0
HasCropland(row) ==
    FGt(FAdd(ColumnOf(row, AreaVar("rainfed")), ColumnOf(row, AreaVar("irrigated"))), Num(0))

\* generate_soil_files.py is not running
DlIdle ==
    /\ dl_pc = "idle"
    /\ dl_cov = 0
    /\ dl_attempts = 0
    /\ dl_files = <<>>

FnIdle ==
    /\ fn_pc = "none"
    /\ fn_in = <<>>
    /\ fn_out = <<>>

SoilIdle ==
    /\ soil_pc = "idle"
    /\ type_i = 0
    /\ points = <<>>
    /\ slope = NaN
    /\ hsg = ""
    /\ muname = ""
    /\ selected_soil = <<>>
    /\ soil_depth = 0
    /\ selected_point = <<>>
    /\ soil_files = {}
    /\ last_file = <<>>
    /\ gssurgo_luts = <<>>
    /\ county_df = <<>>

InitAgg ==
    /\ prog \in {"soc", "areas"}
    /\ world \in Worlds
    /\ prog = "areas" => world.soil = <<SoilA, SoilB>>
    /\ pc = "apply"
    /\ todo = Counties
    /\ gid = ""
    /\ markers = {}
    /\ county_lu = <<>>
    /\ df = <<>>
    /\ rasters_opened = 0
    /\ weights_computed = FALSE
    /\ ret = <<>>
    /\ conus_table = <<>>
    /\ csv_rows = <<>>
    /\ SoilIdle
    /\ FnIdle
    /\ DlIdle

\* conus_gdf.apply calls calculate_cropland_soc on the next county, which first
\* writes the marker: with open(f'./temp/{gid}', 'w') as f: pass
SocCall ==
    /\ prog = "soc" /\ pc = "apply" /\ todo # <<>>
    /\ gid' = Head(todo)
    /\ rasters_opened' = 0
    /\ weights_computed' = FALSE
    /\ markers' = markers \cup {gid'}
    /\ pc' = "soc_clip"
    /\ UNCHANGED soilVars
    /\ UNCHANGED fnVars
    /\ UNCHANGED dlVars
    /\ UNCHANGED <<prog, world, todo, county_lu, df, ret, conus_table, csv_rows>>

\* clip, stack, and the no-cropland return
SocClip ==
    /\ pc = "soc_clip"
    /\ county_lu' = Clip(world, world.boundary[gid])
    /\ IF NoCropland(county_lu')
         THEN /\ ret' = NoCroplandList(variables)
              /\ pc' = "return"
         ELSE /\ ret' = ret
              /\ pc' = "soc_rasters"
    /\ UNCHANGED soilVars
    /\ UNCHANGED fnVars
    /\ UNCHANGED dlVars
    /\ UNCHANGED <<prog, world, todo, gid, markers, df, rasters_opened,
                   weights_computed, conus_table, csv_rows>>

\* for v in ['bulk_density', 'soc']: for layer in layers: open, match, clip, concat
SocOpenRasters ==
    /\ pc = "soc_rasters"
    /\ df' = ConcatSoil(world, county_lu)
    /\ rasters_opened' = rasters_opened + 2 * Len(layers)
    /\ pc' = "soc_aggregate"
    /\ UNCHANGED soilVars
    /\ UNCHANGED fnVars
    /\ UNCHANGED dlVars
    /\ UNCHANGED <<prog, world, todo, gid, markers, county_lu, weights_computed,
                   ret, conus_table, csv_rows>>

\* rioxarray.open_rasterio raises on a soil raster that is missing or unreadable;
\* nothing catches it and the run ends in the middle of the county
SocRasterFails ==
    /\ pc = "soc_rasters"
    /\ pc' = "crashed"
    /\ UNCHANGED soilVars
    /\ UNCHANGED fnVars
    /\ UNCHANGED dlVars
    /\ UNCHANGED <<prog, world, todo, gid, markers, county_lu, df, rasters_opened,
                   weights_computed, ret, conus_table, csv_rows>>

\* the area join, the soc_weight columns and the result
SocAggregate ==
    /\ pc = "soc_aggregate"
    /\ df' = AgTable(df, calculate_grid_areas(world))
    /\ weights_computed' = TRUE
    /\ ret' = ResultList(SocResult(df'), variables)
    /\ pc' = "return"
    /\ UNCHANGED soilVars
    /\ UNCHANGED fnVars
    /\ UNCHANGED dlVars
    /\ UNCHANGED <<prog, world, todo, gid, markers, county_lu, rasters_opened,
                   conus_table, csv_rows>>

\* conus_gdf.apply calls calculate_cropland_area on the next county
AreaCall ==
    /\ prog = "areas" /\ pc = "apply" /\ todo # <<>>
    /\ gid' = Head(todo)
    /\ ret' = calculate_cropland_area(world, calculate_grid_areas(world), world.boundary[gid'])
    /\ pc' = "return"
    /\ UNCHANGED soilVars
    /\ UNCHANGED fnVars
    /\ UNCHANGED dlVars
    /\ UNCHANGED <<prog, world, todo, markers, county_lu, df, rasters_opened,
                   weights_computed, conus_table, csv_rows>>

\* the call returns its list to apply
Return ==
    /\ pc = "return"
    /\ conus_table' = Append(conus_table, [gid |-> gid, values |-> ret])
    /\ todo' = Tail(todo)
    /\ pc' = "apply"
    /\ county_lu' = <<>>
    /\ df' = <<>>
    /\ UNCHANGED soilVars
    /\ UNCHANGED fnVars
    /\ UNCHANGED dlVars
    /\ UNCHANGED <<prog, world, gid, markers, rasters_opened, weights_computed, ret, csv_rows>>

\* the rows with cropland are written to the csv
WriteCsv ==
    /\ pc = "apply" /\ todo = <<>>
    /\ csv_rows' = SelectSeq(conus_table, HasCropland)
    /\ pc' = "done"
    /\ UNCHANGED soilVars
    /\ UNCHANGED fnVars
    /\ UNCHANGED dlVars
    /\ UNCHANGED <<prog, world, todo, gid, markers, county_lu, df, rasters_opened,
                   weights_computed, ret, conus_table>>

NextAgg ==
    \/ SocCall
    \/ SocClip
    \/ SocOpenRasters
    \/ SocRasterFails
    \/ SocAggregate
    \/ AreaCall
    \/ Return
    \/ WriteCsv

Spec == InitAgg /\ [][NextAgg]_vars

-----------------------------------------------------------------------------
(* What the aggregator is expected to report, read off the rasters *)

\* the pixels of land-use type t inside county c, as <<row, column>>
TypePixels(w, c, t) ==
    { p \in (1..Len(w.lats)) \X (w.boundary[c].lo .. w.boundary[c].hi) :
        w.lu[p] \in LU_TYPES[t] }

RECURSIVE SumOver(_, _)
SumOver(S, f) ==
    IF S = {} THEN 0
    ELSE LET e == CHOOSE x \in S : TRUE IN f[e] + SumOver(S \ {e}, f)

\* the sum of the row areas of the pixels of type t in county c
SummedArea(w, c, t) ==
    LET P == TypePixels(w, c, t)
    IN  SumOver(P, [p \in P |-> w.cell_area[w.lats[p[1]]]])

\* whether the SOC weight of row r at depth d (a layer, or the total) is missing
WeightMissing(w, r, d) ==
    LET miss(i) == w.soil[r].bulk_density[i].isnan \/ w.soil[r].soc[i].isnan
    IN  IF d <= Len(layers) THEN miss(d) ELSE \E i \in 1..Len(layers) : miss(i)

\* the SOC weight of row r at depth d, in 1e-4 Mg/ha, when it is not missing
LayerWeight(w, r, i) ==
    w.soil[r].soc[i].num * w.soil[r].bulk_density[i].num * layers[i].thickness

Weight(w, r, d) ==
    IF d <= Len(layers) THEN LayerWeight(w, r, d)
    ELSE SumOver(1..Len(layers), [i \in 1..Len(layers) |-> LayerWeight(w, r, i)])

VarIndex(v) == CHOOSE i \in 1..Len(variables) : variables[i] = v

Returned(v) == ret[VarIndex(v)]

TypeSet == {LU_TYPE_NAMES[i] : i \in 1..Len(LU_TYPE_NAMES)}

FuncSet == {FUNC_NAMES[i] : i \in 1..Len(FUNC_NAMES)}

DepthSet == {DepthNames[i] : i \in 1..Len(DepthNames)}

SocReturns == prog = "soc" /\ pc = "return"

\* the 20 Mg/ha of the end-to-end county, in 1e-4 Mg/ha
TwentyMgHa == Num(20 * 10000)

-----------------------------------------------------------------------------
(* Claims *)

\* C1 (as stated): whenever calculate_cropland_soc or calculate_cropland_area
\* returns, the reported area of every land-use type is zero when the summed pixel
\* area of the type is below MIN_REPORT_AREA and is the summed area otherwise, a
\* sum equal to the threshold included.
C1_ReportedAreaThreshold ==
    pc = "return" =>
        \A i \in 1..Len(LU_TYPE_NAMES) :
            LET summed == SummedArea(world, gid, LU_TYPE_NAMES[i])
            IN  ret[i] = IF summed < MIN_REPORT_AREA THEN Num(0) ELSE Num(summed)

\* C2: in the list calculate_cropland_soc returns, every statistic of a type whose
\* reported area is zero, or that has no pixel in the county, is missing; a
\* statistic that is not missing belongs to a type with a positive reported area.
C2_SuppressionCascade ==
    SocReturns =>
        \A t \in TypeSet, f \in FuncSet, d \in DepthSet :
            /\ (FEq(Returned(AreaVar(t)), Num(0)) \/ TypePixels(world, gid, t) = {})
                   => Returned(SocVar(t, f, d)) = NaN
            /\ ~Returned(SocVar(t, f, d)).isnan => FGt(Returned(AreaVar(t)), Num(0))

\* C2 witness: a county with pixels of both types, one type suppressed with all its
\* statistics missing while the other type reports an area and a mean.
C2_Witness ==
    /\ SocReturns /\ weights_computed
    /\ \E t, u \in TypeSet :
        /\ SummedArea(world, gid, t) > 0
        /\ FEq(Returned(AreaVar(t)), Num(0))
        /\ \A f \in FuncSet, d \in DepthSet : Returned(SocVar(t, f, d)) = NaN
        /\ FGt(Returned(AreaVar(u)), Num(0))
        /\ ~Returned(SocVar(u, "mean", TotalName)).isnan

\* C3: a county whose clipped land-use table holds no agricultural pixel returns
\* one value per requested variable, 0 for every area and missing for every
\* statistic, with no soil raster opened and no SOC weight computed by the call;
\* calculate_cropland_area returns 0 for both areas.
C3_NoCroplandShortCircuit ==
    (pc = "return" /\ \A t \in TypeSet : TypePixels(world, gid, t) = {}) =>
        /\ Len(ret) = Len(Columns)
        /\ \A i \in 1..Len(ret) :
              ret[i] = IF Columns[i][1] = "area" THEN Num(0) ELSE NaN
        /\ prog = "soc" => rasters_opened = 0 /\ ~weights_computed

\* C3 witness: calculate_cropland_soc returns for a county without cropland, after
\* an earlier county of the same run had its rasters opened.
C3_Witness ==
    /\ SocReturns
    /\ \A t \in TypeSet : TypePixels(world, gid, t) = {}
    /\ conus_table # <<>>
    /\ \E i \in 1..Len(conus_table[1].values) : ~conus_table[1].values[i].isnan /\ i > 2

\* C4 (as stated): in the end-to-end county the call returns rainfed_area = 15.0,
\* irrigated_area = 5.0, soc_rainfed_mean = 20.00 and a missing soc_irrigated_mean.
C4_EndToEndAsStated ==
    (SocReturns /\ world = EndToEndWorld /\ gid = "c1") =>
        /\ Returned(AreaVar("rainfed")) = Num(150)
        /\ Returned(AreaVar("irrigated")) = Num(50)
        /\ FEq(Returned(SocVar("rainfed", "mean", "0-5cm")), TwentyMgHa)
        /\ Returned(SocVar("irrigated", "mean", "0-5cm")) = NaN

\* C4 (amended): every agricultural pixel is joined to the area of its own latitude
\* row; the reported area of a type is 0 or the sum of the row areas of the type's
\* pixels, the sum when it exceeds the threshold and 0 when it is below; the mean
\* of a type with a positive reported area is the mean of the non-missing SOC
\* weights of the type's pixels; the end-to-end county returns rainfed_area = 15.0,
\* irrigated_area = 0.0, soc_rainfed_mean = 20.00 and a missing soc_irrigated_mean.
C4_EndToEnd ==
    (SocReturns /\ weights_computed) =>
        /\ \A i \in 1..Len(df) : df[i].area_ha = Num(world.cell_area[df[i].y])
        /\ Len(df) = Cardinality(UNION {TypePixels(world, gid, t) : t \in TypeSet})
        /\ \A t \in TypeSet :
              LET summed == SummedArea(world, gid, t)
                  area == Returned(AreaVar(t))
              IN  /\ area \in {Num(0), Num(summed)}
                  /\ summed > MIN_REPORT_AREA => area = Num(summed)
                  /\ summed < MIN_REPORT_AREA => area = Num(0)
                  /\ \A k \in 1..Len(DepthNames) :
                        LET P == { p \in TypePixels(world, gid, t) : ~WeightMissing(world, p[1], k) }
                            mean == Returned(SocVar(t, "mean", DepthNames[k]))
                        IN  (FGt(area, Num(0)) /\ P # {}) =>
                               /\ ~mean.isnan
                               /\ mean.num * Cardinality(P) =
                                    mean.den * SumOver(P, [p \in P |-> Weight(world, p[1], k)])
        /\ (world = EndToEndWorld /\ gid = "c1") =>
              /\ Returned(AreaVar("rainfed")) = Num(150)
              /\ Returned(AreaVar("irrigated")) = Num(0)
              /\ FEq(Returned(SocVar("rainfed", "mean", "0-5cm")), TwentyMgHa)
              /\ FEq(Returned(SocVar("rainfed", "mean", TotalName)), TwentyMgHa)
              /\ Returned(SocVar("irrigated", "mean", "0-5cm")) = NaN

\* C4 witness: the end-to-end county has been aggregated: 40 agricultural pixels,
\* 30 rainfed and 10 irrigated, each joined to 0.5 ha.
C4_Witness ==
    /\ SocReturns /\ weights_computed
    /\ world = EndToEndWorld /\ gid = "c1"
    /\ Len(df) = 40
    /\ Len(TypeRows(df, LU_TYPES["rainfed"])) = 30
    /\ Len(TypeRows(df, LU_TYPES["irrigated"])) = 10
    /\ \A i \in 1..Len(df) : df[i].area_ha = Num(5)

-----------------------------------------------------------------------------
(* settings.py, gssurgo.py: the soil-file configuration; depths in cm *)

SOIL_LAYERS ==
    << [top |-> 0,   bottom |-> 5,   thickness |-> 5,  no3 |-> 10, nh4 |-> 1],
       [top |-> 5,   bottom |-> 10,  thickness |-> 5,  no3 |-> 10, nh4 |-> 1],
       [top |-> 10,  bottom |-> 20,  thickness |-> 10, no3 |-> 7,  nh4 |-> 1],
       [top |-> 20,  bottom |-> 40,  thickness |-> 20, no3 |-> 4,  nh4 |-> 1],
       [top |-> 40,  bottom |-> 60,  thickness |-> 20, no3 |-> 2,  nh4 |-> 1],
       [top |-> 60,  bottom |-> 80,  thickness |-> 20, no3 |-> 1,  nh4 |-> 1],
       [top |-> 80,  bottom |-> 100, thickness |-> 20, no3 |-> 1,  nh4 |-> 1],
       [top |-> 100, bottom |-> 120, thickness |-> 20, no3 |-> 1,  nh4 |-> 1],
       [top |-> 120, bottom |-> 140, thickness |-> 20, no3 |-> 1,  nh4 |-> 1],
       [top |-> 140, bottom |-> 160, thickness |-> 20, no3 |-> 1,  nh4 |-> 1],
       [top |-> 160, bottom |-> 180, thickness |-> 20, no3 |-> 1,  nh4 |-> 1],
       [top |-> 180, bottom |-> 200, thickness |-> 20, no3 |-> 1,  nh4 |-> 1] >>

\* settings.GSSURGO_NON_SOIL_TYPES, the list generate_soil_files imports
GSSURGO_NON_SOIL_TYPES == {"Water", "Pits", "Dam", "Dumps", "Levee"}

\* gssurgo.GSSURGO_NON_SOIL_TYPES
gssurgo_NON_SOIL_TYPES ==
    {"Acidic rock land", "Area not surveyed", "Dam", "Dumps", "Levee",
     "No Digital Data Available", "Pits", "Water"}

\* gssurgo.GSSURGO_URBAN_TYPES
GSSURGO_URBAN_TYPES == {"Udorthents", "Urban land"}

CURVE_NUMBERS == [A |-> 67, B |-> 78, C |-> 85, D |-> 89]

-----------------------------------------------------------------------------
(* The soil survey and the cropland points of a county *)

MaxPoints == 3

MaxHorizons == 2

SoilCounty == "c1"

\* a missing string value of a table
NoValue == "<NA>"

\* the muaggatt table; a map unit name is the list of its comma-separated parts
MUAGGATT ==
    << [mukey |-> 1, muname |-> <<"Alpha loam", " 0 to 3 percent slopes">>,
        hydgrpdcd |-> "B", slopegradwta |-> Num(2)],
       [mukey |-> 2, muname |-> <<"Alpha loam", " 3 to 8 percent slopes">>,
        hydgrpdcd |-> "C", slopegradwta |-> Num(5)],
       [mukey |-> 3, muname |-> <<"Beta clay">>,
        hydgrpdcd |-> "A/D", slopegradwta |-> Num(1)],
       [mukey |-> 4, muname |-> <<"Gamma sand", " 0 to 2 percent slopes">>,
        hydgrpdcd |-> NoValue, slopegradwta |-> Num(1)],
       [mukey |-> 5, muname |-> <<"Water">>,
        hydgrpdcd |-> NoValue, slopegradwta |-> NaN],
       [mukey |-> 6, muname |-> <<"Urban land-Beta complex", " 0 to 3 percent slopes">>,
        hydgrpdcd |-> NoValue, slopegradwta |-> Num(3)],
       [mukey |-> 7, muname |-> <<"Acidic rock land">>,
        hydgrpdcd |-> NoValue, slopegradwta |-> NaN],
       [mukey |-> 8, muname |-> <<"Gamma sand", " 2 to 5 percent slopes">>,
        hydgrpdcd |-> "A", slopegradwta |-> Num(3)] >>

\* the MUPOLYGON layer clipped to the county: the map unit key of each polygon
MUPOLYGON == <<1, 2, 3, 4, 5, 6, 7, 8>>

\* Python's order of the strings of the survey, for np.sort
StringOrder ==
    <<"A", "A/D", "Acidic rock land", "Alpha loam", "B", "Beta clay", "C", "D",
      "Gamma sand", "Urban land-Beta complex", "Water">>

\* hsg[0], the first character of a hydrologic group code
FirstChar == [A |-> "A", B |-> "B", C |-> "C", D |-> "D"] @@ ("A/D" :> "A")

\* the horizons a chorizon table may hold: name, top and bottom
HorizonKinds ==
    { [hzname |-> "A",  top |-> 0,   bottom |-> 30],
      [hzname |-> "C",  top |-> 30,  bottom |-> 150],
      [hzname |-> "Bw", top |-> 50,  bottom |-> 100],
      [hzname |-> "R",  top |-> 150, bottom |-> 210],
      [hzname |-> "Oi", top |-> 0,   bottom |-> 3] }

\* the component keys of map unit mukey
Cokeys(mukey) == {10 * mukey + 1, 10 * mukey + 2}

\* every component and chorizon table of map unit mukey with two components and up
\* to MaxHorizons horizons
RichLuts(mukey) ==
    { [component |-> [i \in 1..2 |-> [mukey |-> mukey, cokey |-> 10 * mukey + i,
                                       majcompflag |-> flags[i]]],
       chorizon  |-> [i \in 1..Len(hz) |->
                        [cokey |-> hz[i][1], hzname |-> hz[i][2].hzname,
                         top |-> hz[i][2].top, bottom |-> hz[i][2].bottom]]] :
      flags \in [1..2 -> {"Yes", "No"}],
      hz \in UNION {[1..n -> Cokeys(mukey) \X HorizonKinds] : n \in 0..MaxHorizons} }

\* map unit mukey with one major component of two horizons
PlainLuts(mukey) ==
    [component |-> << [mukey |-> mukey, cokey |-> 10 * mukey + 1, majcompflag |-> "Yes"] >>,
     chorizon  |-> << [cokey |-> 10 * mukey + 1, hzname |-> "A", top |-> 0,  bottom |-> 30],
                      [cokey |-> 10 * mukey + 1, hzname |-> "C", top |-> 30, bottom |-> 150] >>]

\* the lookup tables read for a county: every table when the county has a single
\* cropland point, on map unit 3, and the plain one otherwise
LutsFor(df_, mukey) ==
    IF Len(df_) = 1 /\ mukey = 3 THEN RichLuts(mukey) ELSE {PlainLuts(mukey)}

\* the cropland points of one type: the polygon each lies within, 0 for none
PointTables == UNION {[1..n -> 0..Len(MUPOLYGON)] : n \in 0..MaxPoints}

\* the type's area column of the summary csv
CountyAreas == {Num(0), Num(150)}

\* which points miss a SoilGrids value: none, the first, or all
MissingPatterns(n) == {{}, {1} \cap (1..n), 1..n}

\* distance of point i to the centroid, km
DistancePatterns == { <<5, 1, 3>>, <<2, 2, 2>>, <<3, 1, 1>> }

DistanceOf(pattern, i) == pattern[((i - 1) % Len(pattern)) + 1]

-----------------------------------------------------------------------------
(* generate_soil_files.py, soil.py: the functions *)

\* name.split(',')[0]
Grouped(name) == name[1]

MuaggattOf(mukey) == CHOOSE i \in 1..Len(MUAGGATT) : MUAGGATT[i].mukey = mukey

\* _state_soil.merge(gssurgo_luts['muaggatt'], on='mukey'), names grouped
soil ==
    [i \in 1..Len(MUPOLYGON) |->
        LET a == MUAGGATT[MuaggattOf(MUPOLYGON[i])]
        IN  [mukey |-> a.mukey, muname |-> Grouped(a.muname),
             hydgrpdcd |-> a.hydgrpdcd, slopegradwta |-> a.slopegradwta]]

\* gpd.tools.sjoin(sub_df, soil, predicate="within", how="left")
sjoin(sub_df) ==
    [i \in 1..Len(sub_df) |->
        IF sub_df[i] = 0
        THEN [pt |-> i, matched |-> FALSE, mukey |-> 0, muname |-> NoValue,
              hydgrpdcd |-> NoValue, slopegradwta |-> NaN]
        ELSE [pt |-> i, matched |-> TRUE, mukey |-> soil[sub_df[i]].mukey,
              muname |-> soil[sub_df[i]].muname,
              hydgrpdcd |-> soil[sub_df[i]].hydgrpdcd,
              slopegradwta |-> soil[sub_df[i]].slopegradwta]]

\* df[~df['muname'].isin(GSSURGO_NON_SOIL_TYPES)], then df[df['mukey'].notna()]
NonSoilFilter(joined) ==
    SelectSeq(SelectSeq(joined, LAMBDA r : r.muname \notin GSSURGO_NON_SOIL_TYPES),
              LAMBDA r : r.matched)

Count(col, v) == Cardinality({i \in 1..Len(col) : col[i] = v})

StrRank(v) == CHOOSE i \in 1..Len(StringOrder) : StringOrder[i] = v

\* the most frequent value met first, without the sort
FirstMode_Unsorted(col) ==
    LET vals == SelectSeq(col, LAMBDA v : v # NoValue)
        i == CHOOSE k \in 1..Len(vals) :
                /\ \A j \in 1..Len(vals) : Count(vals, vals[j]) <= Count(vals, vals[k])
                /\ \A j \in 1..(k - 1) : Count(vals, vals[j]) < Count(vals, vals[k])
    IN  IF vals = <<>> THEN NoValue ELSE vals[i]

\* Series.mode()[0]: the most frequent values, missing ones dropped, sorted; the
\* first of them, NoValue when there is none (the IndexError)
FirstMode(col) ==
    LET vals == SelectSeq(col, LAMBDA v : v # NoValue)
        modes == {v \in {vals[i] : i \in 1..Len(vals)} :
                    \A j \in 1..Len(vals) : Count(vals, vals[j]) <= Count(vals, v)}
    IN  IF vals = <<>> THEN NoValue
        ELSE CHOOSE v \in modes : \A u \in modes : StrRank(v) <= StrRank(u)

\* df['slopegradwta'].mean()
SlopeMean(df_) ==
    LET v == NotNaNs([i \in 1..Len(df_) |-> df_[i].slopegradwta])
    IN  IF v = <<>> THEN NaN ELSE Frac(SumInts(v), Len(v))

\* the group code of the first point, '' when it has none
Hsg_FirstPoint(df_) == IF df_[1].hydgrpdcd = NoValue THEN "" ELSE df_[1].hydgrpdcd

\* try: df['hydgrpdcd'].mode()[0]  except: ''
Hsg(df_) ==
    LET m == FirstMode([i \in 1..Len(df_) |-> df_[i].hydgrpdcd])
    IN  IF m = NoValue THEN "" ELSE m

\* soil[soil['muname'] == muname].iloc[0]
FirstPolygon(name) == SelectSeq(soil, LAMBDA r : r.muname = name)[1]

\* .merge(component, on='mukey').merge(chorizon, on='cokey')
MergeLuts(polygon, luts) ==
    LET comps == SelectSeq(luts.component, LAMBDA c : c.mukey = polygon.mukey)
    IN  Concat([i \in 1..Len(comps) |->
            LET hz == SelectSeq(luts.chorizon, LAMBDA h : h.cokey = comps[i].cokey)
            IN  [k \in 1..Len(hz) |->
                    [mukey |-> polygon.mukey, muname |-> polygon.muname,
                     cokey |-> comps[i].cokey, majcompflag |-> comps[i].majcompflag,
                     hzname |-> hz[k].hzname, top |-> hz[k].top, bottom |-> hz[k].bottom]]])

\* selected_soil[selected_soil['majcompflag'] == 'Yes']
MajorRows(merged) == SelectSeq(merged, LAMBDA h : h.majcompflag = "Yes")

RowOrders(n) == {f \in [1..n -> 1..n] : \A i, j \in 1..n : f[i] = f[j] => i = j}

\* sort_values(by='top'): the orders of the rows with tops ascending; the order of
\* rows of equal top is not specified by the sort
SortByTop(rows) ==
    { [i \in 1..Len(rows) |-> rows[f[i]]] : f \in
        {g \in RowOrders(Len(rows)) :
            \A i \in 1..(Len(rows) - 1) : rows[g[i]].top <= rows[g[i + 1]].top} }

\* selected_soil[selected_soil['hzname'] != 'R']
DropBedrock(rows) == SelectSeq(rows, LAMBDA h : h.hzname # "R")

\* [layer['bottom'] for layer in SOIL_LAYERS]
layer_depths == [i \in 1..Len(SOIL_LAYERS) |-> SOIL_LAYERS[i].bottom]

Abs(x) == IF x < 0 THEN -x ELSE x

\* the bottom of the deepest horizon of the table
DeepestBottom(rows) == SeqMax([i \in 1..Len(rows) |-> rows[i].bottom])

\* selected_soil.iloc[-1]['bottom']
LastBottom(rows) == rows[Len(rows)].bottom

\* max(layer_depths): the key left out and the deepest layer bottom taken
SoilDepths_Deepest(bottom) == {layer_depths[Len(layer_depths)]}

\* min(layer_depths, key=lambda x: abs(x - bottom)): the layer bottoms nearest to
\* bottom; between two equally near ones the rounding of the floats decides
SoilDepths(bottom) ==
    {layer_depths[i] : i \in {k \in 1..Len(layer_depths) :
        \A j \in 1..Len(layer_depths) :
            Abs(layer_depths[k] - bottom) <= Abs(layer_depths[j] - bottom)}}

\* generate_soil_file: the curve number, TOTAL_LAYERS and the layer rows written
generate_soil_file(fn, source, hsg_, slope_, depth, soil_df) ==
    [fn |-> fn, source |-> source, hsg |-> hsg_,
     cn |-> IF hsg_ = "" THEN -999 ELSE CURVE_NUMBERS[FirstChar[hsg_]],
     slope |-> slope_,
     sampled |-> IF source = "SoilGrids" THEN <<>>
                 ELSE <<soil_df[1].muname, soil_df[1].mukey>>,
     total_layers |-> Len(soil_df),
     layer_rows |-> Len(SelectSeq(SOIL_LAYERS, LAMBDA l : l.bottom <= depth))]

\* df[df['muname'] == muname].dropna(): the points of the dominant unit without a
\* missing value in any column
Candidates(df_, name, missing) ==
    SelectSeq(df_, LAMBDA r : /\ r.muname = name
                              /\ r.hydgrpdcd # NoValue
                              /\ ~r.slopegradwta.isnan
                              /\ r.pt \notin missing)

\* df.loc[df['distance_to_centroid'].idxmin()]: the first point of least distance
NearestPoint(cand, pattern) ==
    LET i == CHOOSE k \in 1..Len(cand) :
                /\ \A j \in 1..Len(cand) :
                      DistanceOf(pattern, cand[k].pt) <= DistanceOf(pattern, cand[j].pt)
                /\ \A j \in 1..(k - 1) :
                      DistanceOf(pattern, cand[k].pt) < DistanceOf(pattern, cand[j].pt)
    IN  [pt |-> cand[i].pt, distance_to_centroid |-> DistanceOf(pattern, cand[i].pt)]

-----------------------------------------------------------------------------
(* generate_soil_files.py: main, for one county of the summary csv *)

AggIdle ==
    /\ pc = "idle"
    /\ world = <<>>
    /\ todo = <<>>
    /\ gid = SoilCounty
    /\ markers = {}
    /\ county_lu = <<>>
    /\ df = <<>>
    /\ rasters_opened = 0
    /\ weights_computed = FALSE
    /\ ret = <<>>
    /\ conus_table = <<>>
    /\ csv_rows = <<>>

InitSoil ==
    /\ prog = "soil"
    /\ AggIdle
    /\ FnIdle
    /\ DlIdle
    /\ soil_pc = "type_loop"
    /\ type_i = 1
    /\ points = <<>>
    /\ slope = NaN
    /\ hsg = ""
    /\ muname = ""
    /\ selected_soil = <<>>
    /\ soil_depth = 0
    /\ selected_point = <<>>
    /\ soil_files = {}
    /\ last_file = <<>>
    /\ gssurgo_luts = <<>>
    /\ county_df = <<>>

\* what one pass of the loop over LU_TYPES leaves behind is dropped
ClearPass ==
    /\ points' = <<>>
    /\ slope' = NaN
    /\ hsg' = ""
    /\ muname' = ""
    /\ selected_soil' = <<>>
    /\ soil_depth' = 0
    /\ selected_point' = <<>>
    /\ last_file' = <<>>
    /\ gssurgo_luts' = <<>>
    /\ county_df' = <<>>

\* continue
Continue ==
    /\ type_i' = type_i + 1
    /\ soil_pc' = "type_loop"
    /\ ClearPass
    /\ UNCHANGED soil_files

\* for t in LU_TYPES: the area test and the points of the type in the county
TypeStart ==
    /\ prog = "soil" /\ soil_pc = "type_loop" /\ type_i <= Len(LU_TYPE_NAMES)
    /\ \E area \in CountyAreas, sub_df \in PointTables :
          IF ~FGt(area, Num(0)) \/ sub_df = <<>>
          THEN Continue
          ELSE /\ points' = sjoin(sub_df)
               /\ soil_pc' = "filter"
               /\ UNCHANGED <<gssurgo_luts, county_df, type_i, slope, hsg, muname, selected_soil, soil_depth,
                              selected_point, soil_files, last_file>>
    /\ UNCHANGED aggVars
    /\ UNCHANGED fnVars
    /\ UNCHANGED dlVars

\* the points joined to the map units, without the non-soil and the unmatched ones
Filter ==
    /\ soil_pc = "filter"
    /\ LET df_ == NonSoilFilter(points)
       IN  IF df_ = <<>>
           THEN Continue
           ELSE /\ points' = df_
                /\ soil_pc' = "select"
                /\ UNCHANGED <<gssurgo_luts, county_df, type_i, slope, hsg, muname, selected_soil, soil_depth,
                               selected_point, soil_files, last_file>>
    /\ UNCHANGED aggVars
    /\ UNCHANGED fnVars
    /\ UNCHANGED dlVars

\* mean slope, dominant group, dominant map unit and its first polygon
SelectDominant ==
    /\ soil_pc = "select"
    /\ slope' = SlopeMean(points)
    /\ hsg' = Hsg(points)
    /\ muname' = FirstMode([i \in 1..Len(points) |-> points[i].muname])
    /\ selected_soil' = <<FirstPolygon(muname')>>
    /\ soil_pc' = "horizons"
    /\ UNCHANGED <<gssurgo_luts, county_df, type_i, points, soil_depth, selected_point, soil_files, last_file>>
    /\ UNCHANGED aggVars
    /\ UNCHANGED fnVars
    /\ UNCHANGED dlVars

\* the horizon table of the selected polygon: merged, major, sorted, without R
Horizons ==
    /\ soil_pc = "horizons"
    /\ \E luts \in LutsFor(points, selected_soil[1].mukey) :
          \E sorted \in SortByTop(MajorRows(MergeLuts(selected_soil[1], luts))) :
             /\ gssurgo_luts' = luts
             /\ selected_soil' = DropBedrock(sorted)
    /\ soil_pc' = "depth"
    /\ UNCHANGED <<county_df, type_i, points, slope, hsg, muname, soil_depth, selected_point,
                   soil_files, last_file>>
    /\ UNCHANGED aggVars
    /\ UNCHANGED fnVars
    /\ UNCHANGED dlVars

\* soil_depth; selected_soil.iloc[-1] of an empty table is an IndexError
Depth ==
    /\ soil_pc = "depth"
    /\ IF selected_soil = <<>>
       THEN /\ soil_pc' = "raised"
            /\ UNCHANGED soil_depth
       ELSE /\ soil_depth' \in SoilDepths(LastBottom(selected_soil))
            /\ soil_pc' = "gssurgo_file"
    /\ UNCHANGED <<gssurgo_luts, county_df, type_i, points, slope, hsg, muname, selected_soil, selected_point,
                   soil_files, last_file>>
    /\ UNCHANGED aggVars
    /\ UNCHANGED fnVars
    /\ UNCHANGED dlVars

\* generate_soil_file(fn, desc, hsg, slope, soil_depth, selected_soil)
WriteGssurgo ==
    /\ soil_pc = "gssurgo_file"
    /\ LET fn == <<gid, LU_TYPE_NAMES[type_i], "gSSURGO">>
       IN  /\ last_file' = generate_soil_file(fn, "gSSURGO", hsg, slope, soil_depth,
                                              selected_soil)
           /\ soil_files' = soil_files \cup {fn}
    /\ soil_pc' = "nearest"
    /\ UNCHANGED <<gssurgo_luts, county_df, type_i, points, slope, hsg, muname, selected_soil, soil_depth,
                   selected_point>>
    /\ UNCHANGED aggVars
    /\ UNCHANGED fnVars
    /\ UNCHANGED dlVars

\* the nearest complete point of the dominant unit and the SoilGrids file
Nearest ==
    /\ soil_pc = "nearest"
    /\ \E missing \in MissingPatterns(MaxPoints), pattern \in DistancePatterns :
          LET cand == Candidates(points, muname, missing)
          IN  IF cand = <<>>
              THEN Continue
              ELSE LET fn == <<gid, LU_TYPE_NAMES[type_i], "SoilGrids">>
                   IN  /\ county_df' = [missing |-> missing, distance |-> pattern]
                       /\ selected_point' = <<NearestPoint(cand, pattern)>>
                       /\ last_file' = generate_soil_file(fn, "SoilGrids", hsg, slope,
                                                          soil_depth, SOILGRIDS_LAYERS)
                       /\ soil_files' = soil_files \cup {fn}
                       /\ soil_pc' = "pass_end"
                       /\ UNCHANGED <<gssurgo_luts, type_i, points, slope, hsg, muname,
                                      selected_soil, soil_depth>>
    /\ UNCHANGED aggVars
    /\ UNCHANGED fnVars
    /\ UNCHANGED dlVars

\* the end of the loop body
NextType ==
    /\ soil_pc = "pass_end"
    /\ Continue
    /\ UNCHANGED aggVars
    /\ UNCHANGED fnVars
    /\ UNCHANGED dlVars

\* the loop over LU_TYPES is exhausted
Finish ==
    /\ prog = "soil" /\ soil_pc = "type_loop" /\ type_i > Len(LU_TYPE_NAMES)
    /\ soil_pc' = "done"
    /\ UNCHANGED <<gssurgo_luts, county_df, type_i, points, slope, hsg, muname, selected_soil, soil_depth,
                   selected_point, soil_files, last_file>>
    /\ UNCHANGED aggVars
    /\ UNCHANGED fnVars
    /\ UNCHANGED dlVars

NextSoil ==
    \/ TypeStart
    \/ Filter
    \/ SelectDominant
    \/ Horizons
    \/ Depth
    \/ WriteGssurgo
    \/ Nearest
    \/ NextType
    \/ Finish

SpecSoil == InitSoil /\ [][NextSoil]_vars

-----------------------------------------------------------------------------
(* What the soil-file pipeline is expected to do *)

\* the positions of a pass at which the filtered point table exists
AfterFilter == {"select", "horizons", "depth", "gssurgo_file", "nearest", "pass_end", "raised"}

\* the positions at which the horizon table has been retrieved
AfterHorizons == {"depth", "gssurgo_file", "nearest", "pass_end", "raised"}

\* the positions at which the soil depth has been computed
AfterDepth == {"gssurgo_file", "nearest", "pass_end"}

\* the names of the survey that contain one of GSSURGO_URBAN_TYPES
ContainsUrbanType(name) == name \in {"Urban land-Beta complex"}

RowSet(rows) == {rows[i] : i \in 1..Len(rows)}

\* every horizon of the dominant unit's polygon, whatever its component
UnitHorizons == MergeLuts(FirstPolygon(muname), gssurgo_luts)

MunameColumn == [i \in 1..Len(points) |-> points[i].muname]

\* C5: after the filter no surviving cropland point has a map-unit name of the
\* exact-match non-soil list (water, pits, dams, dumps, levees, not surveyed,
\* acidic rock land) and none has a name containing an urban-type substring.
C5_BothFilterRules ==
    (prog = "soil" /\ soil_pc \in AfterFilter) =>
        \A i \in 1..Len(points) :
            /\ points[i].muname \notin gssurgo_NON_SOIL_TYPES
            /\ ~ContainsUrbanType(points[i].muname)

\* C6: when the dominant unit has horizons and none of them is flagged major, all
\* of its horizons are used (bedrock dropped) and the pass does not fail.
C6_MajorComponentFallback ==
    (/\ prog = "soil" /\ soil_pc \in AfterHorizons
     /\ DropBedrock(UnitHorizons) # <<>>
     /\ MajorRows(UnitHorizons) = <<>>) =>
        /\ RowSet(selected_soil) = RowSet(DropBedrock(UnitHorizons))
        /\ soil_pc # "raised"

\* C7: no empty intersection of the pipeline raises an exception: a pass whose
\* stage is left with nothing ends without a profile and the run goes on.
C7_EmptyStagesNeverRaise ==
    prog = "soil" => soil_pc # "raised"

\* C8: the dominant map unit has the maximal count among the surviving points, is
\* the smallest name in sorted order among the names of maximal count, and is the
\* same for every order of the points.
C8_DominantUnitFirstMode ==
    (prog = "soil" /\ soil_pc = "horizons") =>
        /\ \A i \in 1..Len(points) :
              /\ Count(MunameColumn, points[i].muname) <= Count(MunameColumn, muname)
              /\ Count(MunameColumn, points[i].muname) = Count(MunameColumn, muname)
                    => StrRank(muname) <= StrRank(points[i].muname)
        /\ Count(MunameColumn, muname) > 0
        /\ \A f \in RowOrders(Len(points)) :
              FirstMode([i \in 1..Len(points) |-> MunameColumn[f[i]]]) = muname

\* a three-way tie whose first point is not of the selected unit
C8_Witness ==
    /\ prog = "soil" /\ soil_pc = "horizons"
    /\ Len(points) = 3
    /\ Cardinality(RowSet(MunameColumn)) = 3
    /\ points[1].muname # muname

\* C9: the soil depth is the layer bottom nearest to the deepest bottom among the
\* horizons left after dropping 'R', also when the horizon of greatest top is not
\* the one of greatest bottom.
C9_DepthNearestDeepest ==
    (prog = "soil" /\ soil_pc \in AfterDepth) =>
        soil_depth \in SoilDepths(DeepestBottom(selected_soil))

\* C10 as stated: the soil depth never exceeds the maximum bottom depth of the
\* horizon stack.
C10_NeverExceedsMaxBottom ==
    (prog = "soil" /\ soil_pc \in AfterDepth) =>
        soil_depth <= DeepestBottom(selected_soil)

\* C10: the soil depth is a layer bottom of the ladder and exceeds the maximum
\* bottom depth of the horizon stack by at most 10 cm.
C10_DepthWithinHalfLayer ==
    (prog = "soil" /\ soil_pc \in AfterDepth) =>
        /\ \E i \in 1..Len(SOIL_LAYERS) : soil_depth = SOIL_LAYERS[i].bottom
        /\ soil_depth <= DeepestBottom(selected_soil) + 10

\* a stack whose depth was rounded up, above its deepest bottom
C10_Witness ==
    /\ prog = "soil" /\ soil_pc = "gssurgo_file"
    /\ soil_depth > DeepestBottom(selected_soil)

\* the surviving points of the dominant unit with no missing gridded property
GriddedCandidates ==
    SelectSeq(points, LAMBDA r : r.muname = muname /\ r.pt \notin county_df.missing)

\* C11: among the surviving points of the dominant map unit without a missing
\* gridded property the selected point has the least distance to the centroid, and
\* of equally near ones it is the first in index order.
C11_NearestGriddedCandidate ==
    (prog = "soil" /\ soil_pc = "pass_end") =>
        \E k \in 1..Len(GriddedCandidates) :
            /\ GriddedCandidates[k].pt = selected_point[1].pt
            /\ \A j \in 1..Len(GriddedCandidates) :
                  DistanceOf(county_df.distance, GriddedCandidates[k].pt)
                      <= DistanceOf(county_df.distance, GriddedCandidates[j].pt)
            /\ \A j \in 1..(k - 1) :
                  DistanceOf(county_df.distance, GriddedCandidates[k].pt)
                      < DistanceOf(county_df.distance, GriddedCandidates[j].pt)

-----------------------------------------------------------------------------
(* soil.py: the functions, called on their own *)

SOIL_PARAMETERS == <<"clay", "sand", "soc", "bulk_density">>

Max(a, b) == IF a >= b THEN a ELSE b

Min(a, b) == IF a <= b THEN a ELSE b

\* min(bottom1, bottom2) - max(top1, top2), the clamp at zero left out
overlapping_depth_Unclamped(top1, bottom1, top2, bottom2) ==
    Min(bottom1, bottom2) - Max(top1, top2)

\* max(0.0, min(bottom1, bottom2) - max(top1, top2)), cm
overlapping_depth(top1, bottom1, top2, bottom2) ==
    Max(0, Min(bottom1, bottom2) - Max(top1, top2))

\* a nonzero numpy float divided by zero
Inf == [isnan |-> FALSE, num |-> 1, den |-> 0]

RECURSIVE GCD(_, _)
GCD(a, b) == IF b = 0 THEN a ELSE GCD(b, a % b)

\* the fraction n / d in lowest terms, d > 0
Lowest(n, d) == LET g == GCD(IF n < 0 THEN -n ELSE n, d)
                IN  Frac(n \div g, d \div g)

\* a / b on numpy floats: 0.0 / 0 is nan with a warning, not an exception
FDiv(a, b) ==
    IF a.isnan \/ b.isnan THEN NaN
    ELSE IF b.num = 0 THEN (IF a.num = 0 THEN NaN ELSE Inf)
    ELSE Lowest(a.num * b.den, a.den * b.num)

\* np.sum of floats of one denominator den: a NaN makes the sum NaN
NpSum(col, den) ==
    IF \E i \in 1..Len(col) : col[i].isnan THEN NaN
    ELSE Frac(SumInts([i \in 1..Len(col) |-> col[i].num]), den)

\* the resampler giving 0 to a layer that no horizon overlaps
calculate_parameter_ZeroFilled(soil_df, parameter, top, bottom) ==
    LET weight(h) == Frac(overlapping_depth(h.top, h.bottom, top, bottom), bottom - top)
        kept == SelectSeq(soil_df, LAMBDA h : FGt(weight(h), Num(0)))
        products == [i \in 1..Len(kept) |-> FMul(kept[i][parameter], weight(kept[i]))]
        weights == [i \in 1..Len(kept) |-> weight(kept[i])]
    IN  IF kept = <<>> THEN Num(0)
        ELSE FDiv(NpSum(products, bottom - top), NpSum(weights, bottom - top))

\* the resampler without the division by the sum of the weights
calculate_parameter_Unnormalised(soil_df, parameter, top, bottom) ==
    LET weight(h) == Frac(overlapping_depth(h.top, h.bottom, top, bottom), bottom - top)
        kept == SelectSeq(soil_df, LAMBDA h : FGt(weight(h), Num(0)))
        products == [i \in 1..Len(kept) |-> FMul(kept[i][parameter], weight(kept[i]))]
    IN  IF kept = <<>> THEN NaN ELSE NpSum(products, bottom - top)

\* calculate_parameter, for a target layer with bottom > top: the weights are
\* overlap / (bottom - top), the rows of weight > 0 are kept, and the result is
\* np.sum(parameter * weight) / sum(weight)
calculate_parameter(soil_df, parameter, top, bottom) ==
    LET weight(h) == Frac(overlapping_depth(h.top, h.bottom, top, bottom), bottom - top)
        kept == SelectSeq(soil_df, LAMBDA h : FGt(weight(h), Num(0)))
        products == [i \in 1..Len(kept) |-> FMul(kept[i][parameter], weight(kept[i]))]
        weights == [i \in 1..Len(kept) |-> weight(kept[i])]
    IN  FDiv(NpSum(products, bottom - top), NpSum(weights, bottom - top))

\* the layer table of generate_soil_file: the layers of SOIL_LAYERS down to
\* soil_depth, each parameter resampled from soil_df
LayerTable(soil_df, depth) ==
    LET ls == SelectSeq(SOIL_LAYERS, LAMBDA l : l.bottom <= depth)
    IN  [i \in 1..Len(ls) |->
            [top |-> ls[i].top, bottom |-> ls[i].bottom, thickness |-> ls[i].thickness,
             no3 |-> ls[i].no3, nh4 |-> ls[i].nh4,
             clay |-> calculate_parameter(soil_df, "clay", ls[i].top, ls[i].bottom),
             sand |-> calculate_parameter(soil_df, "sand", ls[i].top, ls[i].bottom),
             soc |-> calculate_parameter(soil_df, "soc", ls[i].top, ls[i].bottom),
             bulk_density |-> calculate_parameter(soil_df, "bulk_density",
                                                  ls[i].top, ls[i].bottom)]]

\* the digits '%.1f' or '%.2f' can print for v, in units of 1/scale of v's unit:
\* the nearest multiple, either neighbour when v is half way between two
Printed(v, scale) ==
    LET n == v.num * scale
        q == n \div v.den
        r == n % v.den
    IN  IF 2 * r < v.den THEN {q} ELSE IF 2 * r > v.den THEN {q + 1} ELSE {q, q + 1}

\* '%-7s' % '-999' if np.isnan(v) else '%-7.1f' % float(v)
Cells(v, scale) ==
    IF v.isnan THEN {[sentinel |-> TRUE, digits |-> -999]}
    ELSE {[sentinel |-> FALSE, digits |-> d] : d \in Printed(v, scale)}

\* the layer lines a call can write for the layer table
RECURSIVE LayerLines(_, _)
LayerLines(table, layer) ==
    IF layer > Len(table) THEN {<<>>}
    ELSE { <<[layer |-> layer, thickness |-> table[layer].thickness,
              clay |-> c, sand |-> sd, soc |-> oc, bulk_density |-> bd,
              no3 |-> table[layer].no3, nh4 |-> table[layer].nh4]>> \o rest :
           c \in Cells(table[layer].clay, 10), sd \in Cells(table[layer].sand, 10),
           oc \in Cells(table[layer].soc, 1), bd \in Cells(table[layer].bulk_density, 1),
           rest \in LayerLines(table, layer + 1) }

-----------------------------------------------------------------------------
(* The direct calls of the functions of soil.py *)

\* depth intervals of the horizons of a stack, cm
HorizonIntervals == {<<0, 30>>, <<30, 150>>, <<0, 3>>, <<50, 100>>, <<15, 60>>}

\* property values of a horizon: clay and sand in %, soc and bulk density in
\* hundredths of % and of Mg/m3
HorizonProperties ==
    { [clay |-> Num(10), sand |-> Num(60), soc |-> Num(220), bulk_density |-> Num(130)],
      [clay |-> Num(30), sand |-> Num(20), soc |-> Num(60),  bulk_density |-> Num(150)],
      [clay |-> NaN,     sand |-> Num(40), soc |-> NaN,      bulk_density |-> Num(140)] }

\* the horizon stacks of up to MaxHorizons rows a call is given
HorizonStacks ==
    UNION { { [i \in 1..n |-> [top |-> st[i][1][1], bottom |-> st[i][1][2],
                               clay |-> st[i][2].clay, sand |-> st[i][2].sand,
                               soc |-> st[i][2].soc,
                               bulk_density |-> st[i][2].bulk_density]] :
              st \in [1..n -> HorizonIntervals \X HorizonProperties] } :
            n \in 0..MaxHorizons }

\* target layers, finer and coarser than the horizons, cm
TargetLayers == {<<0, 5>>, <<5, 15>>, <<10, 20>>, <<0, 30>>, <<20, 40>>, <<0, 200>>, <<150, 200>>}

\* the intervals overlapping_depth is called with, cm
OverlapIntervals == HorizonIntervals \cup TargetLayers \cup {<<0, 10>>, <<20, 30>>}

\* soil depths a soil file is written for, cm
FileDepths == {5, 40}

\* DI = DJ = 0.00026949 degree, in 1e-5 degree, rounded
DI == 27

DJ == 27

\* get_lgrip_grid(x, y): the corners of the cell at (x, y), in 1e-5 degree
get_lgrip_grid(x, y) ==
    LET x0 == Max(-18000000, x)
        x1 == Min(18000000, x + DI)
        y0 == Max(-9000000, y)
        y1 == Min(9000000, y + DJ)
    IN  << <<x0, y0>>, <<x0, y1>>, <<x1, y1>>, <<x1, y0>>, <<x0, y0>> >>

\* longitudes and latitudes the function is called with, in 1e-5 degree: inside
\* the globe, within a cell of its edges, on them and outside
GridLongitudes == {-18000100, -18000000, -9858300, 17999990, 18000000, 18000100}

GridLatitudes == {-9000100, -9000020, -9000000, 2400000, 8999990, 9000000, 9000100}

InitFn ==
    /\ prog = "calls"
    /\ AggIdle
    /\ SoilIdle
    /\ FnIdle
    /\ DlIdle

\* overlapping_depth(top1, bottom1, top2, bottom2)
OverlapCall ==
    /\ prog = "calls" /\ fn_pc = "none"
    /\ \E a \in OverlapIntervals, b \in OverlapIntervals :
          /\ fn_in' = <<a[1], a[2], b[1], b[2]>>
          /\ fn_out' = overlapping_depth(a[1], a[2], b[1], b[2])
    /\ fn_pc' = "overlapping_depth"
    /\ UNCHANGED <<aggVars, soilVars, dlVars>>

\* calculate_parameter(soil_df, parameter, top, bottom)
ParameterCall ==
    /\ prog = "calls" /\ fn_pc = "none"
    /\ \E soil_df \in HorizonStacks, v \in 1..Len(SOIL_PARAMETERS), t \in TargetLayers :
          /\ fn_in' = [soil_df |-> soil_df, parameter |-> SOIL_PARAMETERS[v],
                       top |-> t[1], bottom |-> t[2]]
          /\ fn_out' = calculate_parameter(soil_df, SOIL_PARAMETERS[v], t[1], t[2])
    /\ fn_pc' = "calculate_parameter"
    /\ UNCHANGED <<aggVars, soilVars, dlVars>>

\* generate_soil_file(fn, source, ..., hsg, slope, soil_depth, soil_df)
SoilFileCall ==
    /\ prog = "calls" /\ fn_pc = "none"
    /\ \E soil_df \in HorizonStacks, depth \in FileDepths, hsg_ \in {"", "B", "A/D"} :
          /\ fn_in' = [soil_df |-> soil_df, soil_depth |-> depth, hsg |-> hsg_]
          /\ \E lines \in LayerLines(LayerTable(soil_df, depth), 1) :
                fn_out' = [header |-> generate_soil_file(<<"soil file">>, "SoilGrids", hsg_,
                                                         Num(2), depth, soil_df),
                           df |-> LayerTable(soil_df, depth),
                           lines |-> lines]
    /\ fn_pc' = "generate_soil_file"
    /\ UNCHANGED <<aggVars, soilVars, dlVars>>

\* get_lgrip_grid(x, y)
GridCall ==
    /\ prog = "calls" /\ fn_pc = "none"
    /\ \E x \in GridLongitudes, y \in GridLatitudes :
          /\ fn_in' = <<x, y>>
          /\ fn_out' = get_lgrip_grid(x, y)
    /\ fn_pc' = "get_lgrip_grid"
    /\ UNCHANGED <<aggVars, soilVars, dlVars>>

\* the call returns
FnReturn ==
    /\ prog = "calls" /\ fn_pc # "none"
    /\ fn_pc' = "none"
    /\ fn_in' = <<>>
    /\ fn_out' = <<>>
    /\ UNCHANGED <<aggVars, soilVars, dlVars>>

NextFn ==
    \/ OverlapCall
    \/ ParameterCall
    \/ SoilFileCall
    \/ GridCall
    \/ FnReturn

SpecFn == InitFn /\ [][NextFn]_vars

-----------------------------------------------------------------------------
(* What the functions of soil.py are expected to return *)

\* the horizons of the call's stack that share more than a boundary with its target
Overlapping ==
    SelectSeq(fn_in.soil_df, LAMBDA h :
        Max(h.top, fn_in.top) < Min(h.bottom, fn_in.bottom))

\* the length a horizon shares with the target of the call
Shared(h) == Min(h.bottom, fn_in.bottom) - Max(h.top, fn_in.top)

\* every horizon of the call's stack has the same, non-missing, value
UniformStack ==
    /\ fn_in.soil_df # <<>>
    /\ ~fn_in.soil_df[1][fn_in.parameter].isnan
    /\ \A i \in 1..Len(fn_in.soil_df) :
          fn_in.soil_df[i][fn_in.parameter] = fn_in.soil_df[1][fn_in.parameter]

\* C12: for a target layer that some horizon overlaps, calculate_parameter returns
\* the sum of property * overlap over the sum of overlaps of the overlapping
\* horizons (missing when one of their values is missing), and for a stack of one
\* uniform value it returns that value, for finer and for coarser targets.
C12_DepthWeightedResampling ==
    (prog = "calls" /\ fn_pc = "calculate_parameter" /\ Overlapping # <<>>) =>
        /\ IF \E i \in 1..Len(Overlapping) : Overlapping[i][fn_in.parameter].isnan
           THEN fn_out.isnan
           ELSE /\ ~fn_out.isnan
                /\ fn_out.num * SumInts([i \in 1..Len(Overlapping) |-> Shared(Overlapping[i])])
                     = fn_out.den * SumInts([i \in 1..Len(Overlapping) |->
                            Overlapping[i][fn_in.parameter].num * Shared(Overlapping[i])])
        /\ UniformStack => FEq(fn_out, fn_in.soil_df[1][fn_in.parameter])

\* a uniform stack of two horizons, both cut by a target that is neither of them
C12_Witness ==
    /\ prog = "calls" /\ fn_pc = "calculate_parameter"
    /\ UniformStack
    /\ Len(fn_in.soil_df) = 2 /\ Len(Overlapping) = 2
    /\ fn_in.soil_df[1].top # fn_in.soil_df[2].top
    /\ \A i \in 1..2 : Shared(fn_in.soil_df[i]) < fn_in.soil_df[i].bottom - fn_in.soil_df[i].top
    /\ FEq(fn_out, fn_in.soil_df[1][fn_in.parameter])

\* the horizons of the written stack that share more than a boundary with a layer
OverlappingLayer(l) ==
    SelectSeq(fn_in.soil_df, LAMBDA h : Max(h.top, l.top) < Min(h.bottom, l.bottom))

\* C13: when no horizon overlaps the target layer, calculate_parameter returns a
\* missing value, never a number, and the soil file carries the -999 sentinel for
\* that layer and property; a property that is not missing is written as a number.
C13_ZeroWeightIsMissing ==
    /\ (prog = "calls" /\ fn_pc = "calculate_parameter" /\ Overlapping = <<>>) =>
          fn_out = NaN
    /\ (prog = "calls" /\ fn_pc = "generate_soil_file") =>
          /\ Len(fn_out.lines) = Len(fn_out.df)
          /\ \A i \in 1..Len(fn_out.df) : \A v \in 1..Len(SOIL_PARAMETERS) :
                LET p == SOIL_PARAMETERS[v]
                IN  /\ OverlappingLayer(fn_out.df[i]) = <<>> => fn_out.df[i][p] = NaN
                    /\ fn_out.df[i][p] = NaN =>
                          fn_out.lines[i][p] = [sentinel |-> TRUE, digits |-> -999]
                    /\ fn_out.df[i][p] # NaN => ~fn_out.lines[i][p].sentinel

\* a file with a layer below the stack next to a layer inside it
C13_Witness ==
    /\ prog = "calls" /\ fn_pc = "generate_soil_file"
    /\ fn_in.soil_df # <<>>
    /\ \E i, j \in 1..Len(fn_out.df) :
          /\ OverlappingLayer(fn_out.df[i]) = <<>>
          /\ fn_out.lines[i].clay.sentinel
          /\ ~fn_out.lines[j].clay.sentinel

\* C14: overlapping_depth is the length the two intervals share: never negative,
\* zero for disjoint or touching intervals, the same with the intervals swapped,
\* 0.15 m for (0, 0.3) and (0.15, 0.6) and 0 for (0, 0.1) and (0.2, 0.3).
C14_OverlapLength ==
    (prog = "calls" /\ fn_pc = "overlapping_depth") =>
        LET top1 == fn_in[1]  bottom1 == fn_in[2]  top2 == fn_in[3]  bottom2 == fn_in[4]
        IN  /\ fn_out >= 0
            /\ fn_out = Cardinality({x \in 0..200 : /\ top1 <= x /\ x < bottom1
                                                   /\ top2 <= x /\ x < bottom2})
            /\ (bottom1 <= top2 \/ bottom2 <= top1) => fn_out = 0
            /\ fn_out = overlapping_depth(top2, bottom2, top1, bottom1)
            /\ fn_in = <<0, 30, 15, 60>> => fn_out = 15
            /\ fn_in = <<0, 10, 20, 30>> => fn_out = 0

\* the call on the disjoint intervals (0, 0.1) and (0.2, 0.3)
C14_Witness ==
    /\ prog = "calls" /\ fn_pc = "overlapping_depth"
    /\ fn_in = <<0, 10, 20, 30>>
    /\ fn_out = 0

-----------------------------------------------------------------------------
(* What the soil files are expected to carry *)

\* the group codes of the surviving points, missing ones left out
GroupCodes ==
    SelectSeq([i \in 1..Len(points) |-> points[i].hydgrpdcd], LAMBDA c : c # NoValue)

\* the curve number of a group code by its letter
CurveNumberOf(code) ==
    CASE code \in {"A", "A/D"} -> 67
      [] code = "B" -> 78
      [] code = "C" -> 85
      [] code = "D" -> 89

\* C15: the hydrologic group is a most frequent group code of the surviving
\* points; when no point carries a code the group is empty, the pass goes on and
\* the soil file carries CURVE_NUMBER -999; otherwise the file carries the curve
\* number of the group's letter (A 67, B 78, C 85, D 89).
C15_GroupAndCurveNumber ==
    (prog = "soil" /\ soil_pc \in {"nearest", "pass_end"}) =>
        /\ last_file.hsg = hsg
        /\ IF GroupCodes = <<>>
           THEN hsg = "" /\ last_file.cn = -999
           ELSE /\ Count(GroupCodes, hsg) > 0
                /\ \A i \in 1..Len(GroupCodes) :
                      Count(GroupCodes, GroupCodes[i]) <= Count(GroupCodes, hsg)
                /\ last_file.cn = CurveNumberOf(hsg)

\* a soil file written for points none of which carries a group code
C15_Witness ==
    /\ prog = "soil" /\ soil_pc = "nearest"
    /\ GroupCodes = <<>>
    /\ last_file.source = "gSSURGO"
    /\ last_file.cn = -999

-----------------------------------------------------------------------------
(* soilgrids.py: download_soilgrids_data(layers, parameters, path, bbox, crs) *)

MaxAttempts == 3

\* the names of SOILGRIDS_PROPERTIES
SOILGRIDS_PROPERTY_NAMES == <<"clay", "sand", "soc", "bdod">>

\* the (property, layer) coverages in the order of the two loops
Coverages ==
    [i \in 1..(Len(SOILGRIDS_PROPERTY_NAMES) * Len(SOILGRIDS_LAYERS)) |->
        <<SOILGRIDS_PROPERTY_NAMES[((i - 1) \div Len(SOILGRIDS_LAYERS)) + 1],
          SOILGRIDS_LAYERS[((i - 1) % Len(SOILGRIDS_LAYERS)) + 1].name>>]

InitDownload ==
    /\ prog = "download"
    /\ AggIdle
    /\ SoilIdle
    /\ FnIdle
    /\ dl_pc = "connect"
    /\ dl_cov = 1
    /\ dl_attempts = 0
    /\ dl_files = <<>>

\* one more failed attempt
Failed == dl_attempts' = Min(dl_attempts + 1, MaxAttempts)

\* wcs = WebCoverageService(url, version='1.0.0'): the capabilities are fetched
Connect ==
    /\ dl_pc = "connect"
    /\ dl_pc' = "request"
    /\ dl_attempts' = 0
    /\ UNCHANGED <<dl_cov, dl_files>>
    /\ UNCHANGED <<aggVars, soilVars, fnVars>>

\* the request of the capabilities fails: the exception leaves the function
ConnectFails ==
    /\ dl_pc = "connect"
    /\ dl_pc' = "raised"
    /\ UNCHANGED <<dl_cov, dl_attempts, dl_files>>
    /\ UNCHANGED <<aggVars, soilVars, fnVars>>

\* response = wcs.getCoverage(...)
GetCoverage ==
    /\ dl_pc = "request"
    /\ dl_pc' = "write"
    /\ UNCHANGED <<dl_cov, dl_attempts, dl_files>>
    /\ UNCHANGED <<aggVars, soilVars, fnVars>>

\* getCoverage raises; except: continue
GetCoverageFails ==
    /\ dl_pc = "request"
    /\ Failed
    /\ UNCHANGED <<dl_pc, dl_cov, dl_files>>
    /\ UNCHANGED <<aggVars, soilVars, fnVars>>

\* with open(..., 'wb') as file: file.write(response.read()); break
WriteFile ==
    /\ dl_pc = "write"
    /\ dl_files' = (dl_cov :> "complete") @@ dl_files
    /\ IF dl_cov < Len(Coverages)
       THEN /\ dl_cov' = dl_cov + 1
            /\ dl_pc' = "connect"
       ELSE /\ dl_pc' = "done"
            /\ UNCHANGED dl_cov
    /\ UNCHANGED dl_attempts
    /\ UNCHANGED <<aggVars, soilVars, fnVars>>

\* open raises, or response.read() raises after open has truncated the file;
\* except: continue
WriteFails ==
    /\ dl_pc = "write"
    /\ \/ UNCHANGED dl_files
       \/ dl_files' = (dl_cov :> "partial") @@ dl_files
    /\ dl_pc' = "request"
    /\ Failed
    /\ UNCHANGED dl_cov
    /\ UNCHANGED <<aggVars, soilVars, fnVars>>

NextDownload ==
    \/ Connect
    \/ ConnectFails
    \/ GetCoverage
    \/ GetCoverageFails
    \/ WriteFile
    \/ WriteFails

SpecDownload == InitDownload /\ [][NextDownload]_vars

\* C16: no failed network call for a coverage ends the download: each is followed
\* by another attempt and no error is ever surfaced.
C16_EveryFailureRetried ==
    prog = "download" => dl_pc # "raised"

-----------------------------------------------------------------------------
(* What the markers of calculate_cropland_soc are expected to tell *)

\* the counties whose call has returned its result
Completed ==
    {conus_table[i].gid : i \in 1..Len(conus_table)}
        \cup (IF pc = "return" THEN {gid} ELSE {})

\* C17: at every point of a run, a crash in the middle of a county included, a
\* county has a marker file only if its processing has completed.
C17_MarkerOnlyIfCompleted ==
    prog = "soc" => markers \subseteq Completed

-----------------------------------------------------------------------------
(* What the SOC layer math is expected to do with missing values *)

\* the raster row of a pixel of the table
RowOf(px) == CHOOSE r \in 1..Len(world.lats) : world.lats[r] = px.y

\* bulk density or organic carbon is missing in layer k of the pixel's cell
SourceMissing(px, k) ==
    world.soil[RowOf(px)].bulk_density[k].isnan \/ world.soil[RowOf(px)].soc[k].isnan

\* C18: for every agricultural pixel, a layer whose bulk density or organic carbon
\* is missing has a missing SOC weight, never zero or another number, and a pixel
\* with a missing layer weight has a missing 0-30cm total, never a partial sum.
C18_MissingStaysMissing ==
    (prog = "soc" /\ pc = "return" /\ weights_computed) =>
        \A i \in 1..Len(df) :
            /\ \A k \in 1..Len(layers) :
                  df[i].soc_weight[k].isnan <=> SourceMissing(df[i], k)
            /\ df[i].soc_weight[Len(layers) + 1].isnan
                  <=> \E k \in 1..Len(layers) : SourceMissing(df[i], k)

\* a pixel with one missing layer next to layers that have a weight
C18_Witness ==
    /\ prog = "soc" /\ pc = "return" /\ weights_computed
    /\ \E i \in 1..Len(df) :
          /\ \E k \in 1..Len(layers) : SourceMissing(df[i], k)
          /\ \E k \in 1..Len(layers) :
                ~df[i].soc_weight[k].isnan /\ df[i].soc_weight[k].num > 0
          /\ df[i].soc_weight[Len(layers) + 1] = NaN

-----------------------------------------------------------------------------
(* What the summary table is expected to hold *)

\* the counties with a row in the written table
Written == {csv_rows[i].gid : i \in 1..Len(csv_rows)}

\* the row the call for county c returned
TableRow(c) == conus_table[CHOOSE i \in 1..Len(conus_table) : conus_table[i].gid = c]

\* the area of type t reported for county c, tenths of ha
Reported(c, t) == ColumnOf(TableRow(c), AreaVar(t))

\* C19: a county has a row in the written summary table if and only if its
\* reported rainfed and irrigated areas add up to more than zero; a county whose
\* areas were all reported as zero has no row, and no county has two rows.
C19_RowsWithCroplandOnly ==
    (prog \in {"soc", "areas"} /\ pc = "done") =>
        /\ \A i \in 1..Len(Counties) :
              LET c == Counties[i]
              IN  /\ ~Reported(c, "rainfed").isnan /\ ~Reported(c, "irrigated").isnan
                  /\ c \in Written <=>
                        Reported(c, "rainfed").num * Reported(c, "irrigated").den
                          + Reported(c, "irrigated").num * Reported(c, "rainfed").den > 0
                  /\ (\A t \in TypeSet : Reported(c, t) = Num(0)) => c \notin Written
        /\ Cardinality(Written) = Len(csv_rows)

\* a table written with one county in it and the other, all areas zero, left out
C19_Witness ==
    /\ prog = "soc" /\ pc = "done"
    /\ Len(csv_rows) = 1
    /\ \E i \in 1..Len(Counties) :
          /\ Counties[i] \notin Written
          /\ \A t \in TypeSet : Reported(Counties[i], t) = Num(0)

-----------------------------------------------------------------------------
(* What get_lgrip_grid is expected to return *)

\* C20: for every input, a latitude outside [-90, 90] and a longitude outside
\* [-180, 180] included, get_lgrip_grid returns a quadrilateral with x0 <= x1 and
\* y0 <= y1 whose corners all lie inside [-180, 180] x [-90, 90].
C20_GridCellClamped ==
    (prog = "calls" /\ fn_pc = "get_lgrip_grid") =>
        /\ fn_out[1][1] <= fn_out[3][1]
        /\ fn_out[1][2] <= fn_out[3][2]
        /\ \A i \in 1..Len(fn_out) :
              /\ -18000000 <= fn_out[i][1] /\ fn_out[i][1] <= 18000000
              /\ -9000000 <= fn_out[i][2] /\ fn_out[i][2] <= 9000000

-----------------------------------------------------------------------------
(* What the header of a soil file says about its layer rows *)

\* the standard layers whose bottom is at or above depth
StandardLayers(depth) == SelectSeq(SOIL_LAYERS, LAMBDA l : l.bottom <= depth)

\* C21: in every soil file written, of either source, the number of layer rows is
\* the number of standard layers whose bottom is at or above the computed soil
\* depth, and the TOTAL_LAYERS value of the header equals that number of rows.
C21_TotalLayersCountsRows ==
    (prog = "soil" /\ soil_pc \in {"nearest", "pass_end"}) =>
        /\ last_file.layer_rows = Len(StandardLayers(soil_depth))
        /\ last_file.total_layers = last_file.layer_rows

-----------------------------------------------------------------------------
(* Which map unit the horizon stack of the gSSURGO file comes from *)

\* the map unit keys of the county's polygons that carry the grouped name
KeysNamed(name) == {soil[i].mukey : i \in {k \in 1..Len(soil) : soil[k].muname = name}}

\* the map unit keys of the surviving cropland points of the type
SurvivingKeys == {points[i].mukey : i \in 1..Len(points)}

\* C22: when several map unit keys of the county share the dominant grouped name,
\* the horizon stack written to the gSSURGO soil file belongs to a key that
\* carries the dominant name and that is the key of at least one surviving
\* cropland point of the type.
C22_StackOfSurvivingKey ==
    (/\ prog = "soil" /\ soil_pc = "nearest"
     /\ Cardinality(KeysNamed(muname)) > 1) =>
        \A i \in 1..Len(selected_soil) :
            /\ selected_soil[i].mukey = last_file.sampled[2]
            /\ selected_soil[i].mukey \in KeysNamed(muname)
            /\ selected_soil[i].mukey \in SurvivingKeys

====
